---- MODULE Spec2Model ----
(***************************************************************************)
(* A model of zombiesplit's split editor (src/presenter/editor.rs), of the *)
(* time fields it commits into (src/model/time/field.rs), of Time          *)
(* addition, parsing and formatting (src/model/time.rs) and of the colour  *)
(* lookup of the view (src/view/gfx/colour.rs).                            *)
(*                                                                         *)
(* Strings are sequences of characters: a decimal digit is written as its  *)
(* digit 0..9 and any other character as its ASCII code.  Option<T> is a   *)
(* sequence of length at most one: None is <<>> and Some(x) is <<x>>.      *)
(***************************************************************************)
EXTENDS Integers, Sequences, FiniteSets, TLC

\* ------------------------------------------------------------------ bounds

\* Number of splits of the run the cursor ranges over.
NumSplits == 2

\* Largest number of times the model stores at one split.
MaxPushes == 2

\* u8 payloads of Edit::Add the model delivers: a single digit and a value
\* whose decimal form is two characters long.  With them a Minutes or
\* Seconds buffer can hold a value within the field's maximum ("9") and
\* values above it ("96", "99"), and a Milliseconds buffer values of one to
\* three digits.
Digits == {9, 96}

\* Times an editor is opened on with Editor::with_time.
InitTimes == { [hours |-> 1, mins |-> 0, secs |-> 0, micros |-> 0] }

\* Field values of the operands of Time addition.
AddHours == {0, 1, 254, 255}
AddMins == {0, 1, 59}
AddSecs == {0, 2, 59}
AddMicros == {0, 1, 999}

\* Decimal numbers a time string is built from, one set for each component:
\* the numbers of the tests of model/time.rs, each field's maximum, and
\* numbers written with leading zeros.
ParseHours == {<<1>>, <<2, 5, 5>>}
ParseMins == {<<2>>, <<5, 9>>}
ParseSecs == {<<3>>, <<1, 0>>}
ParseMicros == {<<1, 2, 3>>, <<4, 5, 6>>, <<5, 0, 0>>, <<0, 0, 7>>}

\* Time strings that are not built that way: "s", "hms", "m5s", "5m3",
\* "256h", "60m", "60s", "1000", "65536" and "2h1h".
OddStrings ==
  { <<115>>, <<104, 109, 115>>, <<109, 5, 115>>, <<5, 109, 3>>,
    <<2, 5, 6, 104>>, <<6, 0, 109>>, <<6, 0, 115>>, <<1, 0, 0, 0>>,
    <<6, 5, 5, 3, 6>>, <<2, 104, 1, 104>> }

\* Field values of the Times that are formatted.
FormatHours == {0, 1, 255}
FormatMins == {0, 2, 59}
FormatSecs == {0, 3, 59}
FormatMicros == {0, 7, 456, 999}

\* Decimal strings handed to the parsers of a single field: values at and
\* just above each maximum, at and just above the ranges of u8 and u16, a
\* value that fits u32 (2^31 - 1), the first value that does not (2^32), and
\* a value written with leading zeros.
FieldStrings ==
  { <<>>, <<0>>, <<4>>, <<0, 5, 9>>, <<5, 9>>, <<6, 0>>, <<7, 5>>,
    <<2, 5, 5>>, <<2, 5, 6>>, <<9, 9, 9>>, <<1, 0, 0, 0>>,
    <<6, 5, 5, 3, 5>>, <<6, 5, 5, 3, 6>>,
    <<2, 1, 4, 7, 4, 8, 3, 6, 4, 7>>, <<4, 2, 9, 4, 9, 6, 7, 2, 9, 6>> }

\* Colours a Set is filled with.
Palette == {"green", "red"}

\* u32 magnitudes handed to Field::new_with_carry and Field::try_from.
FieldVals ==
  {0, 4, 59, 60, 64, 255, 256, 999, 1000, 3600, 65535, 65536, 65600, 2147483647}

\* ------------------------------------------------------------------- state

VARIABLES
  cur,     \* Editor.cur: the cursor, [pos, max]
  time,    \* Editor.time: [hours, mins, secs, micros]
  field,   \* Editor.field: Option of [position, string]
  run,     \* the Run: number of times stored at each split
  ev,      \* the event (or commit) the editor handled last
  res,     \* the EventResult of that call
  pre,     \* the editor (cur, time, field) and the run as that call found them
  pushed,  \* the push_to calls that call made, in order
  undos,   \* number of Undo events handled in a row, counted up to 3
  lhs,     \* Time addition: left operand
  rhs,     \* Time addition: right operand
  sum,     \* Time addition: Option of the outcome
  origin,  \* Time strings: Option of the Time that was formatted into text
  text,    \* Time strings: Option of the string
  parsed,  \* Time strings: Option of the outcome of parsing text
  fin,     \* single fields: the input, [position, string, val]
  fout,    \* single fields: Option of the operation applied and its outcome
  set,     \* colours: the colour Set, a colour for each of its fields
  key,     \* colours: the Key looked up
  colour   \* colours: Option of the Colour by_key returned

vars ==
  <<cur, time, field, run, ev, res, pre, pushed, undos, lhs, rhs, sum,
    origin, text, parsed, fin, fout, set, key, colour>>

editorVars == <<cur, time, field, run, ev, res, pre, pushed, undos>>

addVars == <<lhs, rhs, sum>>

stringVars == <<origin, text, parsed>>

fieldVars == <<fin, fout>>

colourVars == <<set, key, colour>>

\* ----------------------------------------------------------------- options

None == <<>>

Some(x) == <<x>>

\* --------------------------------------------------------------- positions

Name == {"Hours", "Minutes", "Seconds", "Milliseconds"}

\* Field::max of the position.
max(position) ==
  CASE position = "Hours" -> 255
    [] position \in {"Minutes", "Seconds"} -> 59
    [] position = "Milliseconds" -> 999

\* Position::cap: the modulus of the position, its maximum plus one.
cap(position) == max(position) + 1

max_digits(position) ==
  CASE position = "Hours" -> 0
    [] position \in {"Minutes", "Seconds"} -> 2
    [] position = "Milliseconds" -> 3

\* ------------------------------------------------------------------ strings

\* u8::to_string: the decimal form of a u8, without leading zeros.
to_string(digit) ==
  IF digit < 10 THEN <<digit>>
  ELSE IF digit < 100 THEN <<digit \div 10, digit % 10>>
  ELSE <<digit \div 100, (digit \div 10) % 10, digit % 10>>

\* Position::preprocess_string: the string handed to the integer parser.
preprocess_string(position, s) == s

RECURSIVE parse_digits(_, _)
\* The digit loop of str::parse::<u32>: acc * 10 + digit with checked
\* arithmetic; <<>> when the value leaves 32 bits (u32::MAX = 4294967295).
parse_digits(s, acc) ==
  IF s = <<>> THEN <<acc>>
  ELSE IF acc > 429496729 \/ (acc = 429496729 /\ s[1] > 5) THEN <<>>
  ELSE parse_digits(Tail(s), acc * 10 + s[1])

\* str::parse::<u32>: Ok(value), or Err when the string is empty or the value
\* does not fit 32 bits.
parse_u32(s) ==
  IF s = <<>> \/ parse_digits(s, 0) = <<>>
  THEN [ok |-> FALSE, val |-> 0]
  ELSE [ok |-> TRUE, val |-> parse_digits(s, 0)[1]]

\* ------------------------------------------------------------- time fields

\* Carry::from_division(value, modulus).
from_division(value, modulus) ==
  LET reduced == value % modulus
  IN [value |-> reduced, carry |-> (value - reduced) \div modulus, original |-> value]

\* Field::new_with_carry dividing by the position's maximum instead of its
\* capacity.
new_with_carry_ByMax(position, val) ==
  LET c == from_division(val, max(position))
  IN [c EXCEPT !.value = IF c.value <= 65535 THEN c.value ELSE 0]

\* Field::new_with_carry: the reduced value narrowed to u16, zero if it does
\* not fit.
new_with_carry(position, val) ==
  LET c == from_division(val, cap(position))
  IN [c EXCEPT !.value = IF c.value <= 65535 THEN c.value ELSE 0]

\* TryFrom<Carry<Field<P>>> that accepts the reduced value whatever the
\* carry.
try_from_carry_IgnoresCarry(position, c) ==
  [ok |-> TRUE, val |-> c.value, err |-> "None", errval |-> 0]

\* TryFrom<Carry<Field<P>>> for Field<P>.
try_from_carry(position, c) ==
  IF c.carry = 0
  THEN [ok |-> TRUE, val |-> c.value, err |-> "None", errval |-> 0]
  ELSE [ok |-> FALSE, val |-> 0, err |-> "FieldTooBig", errval |-> c.original]

\* TryFrom<u32> for Field<P>.
try_from(position, val) == try_from_carry(position, new_with_carry(position, val))

\* FromStr for Field<P> without the test for the empty string.
from_str_RejectsEmpty(position, s) ==
  LET p == parse_u32(preprocess_string(position, s))
  IN IF ~p.ok THEN [ok |-> FALSE, val |-> 0, err |-> "FieldParse", errval |-> 0]
     ELSE try_from(position, p.val)

\* FromStr for Field<P>.
from_str(position, s) ==
  IF s = <<>> THEN [ok |-> TRUE, val |-> 0, err |-> "None", errval |-> 0]
  ELSE LET p == parse_u32(preprocess_string(position, s))
       IN IF ~p.ok THEN [ok |-> FALSE, val |-> 0, err |-> "FieldParse", errval |-> 0]
          ELSE try_from(position, p.val)

\* -------------------------------------------------------------------- time

Time_default == [hours |-> 0, mins |-> 0, secs |-> 0, micros |-> 0]

\* Time::is_zero.
is_zero(t) == t = Time_default

\* The record field of Time that holds the position.
FieldOf(position) ==
  CASE position = "Hours" -> "hours"
    [] position = "Minutes" -> "mins"
    [] position = "Seconds" -> "secs"
    [] position = "Milliseconds" -> "micros"

\* Time::set_field_str: parses s for the position and replaces that field;
\* on failure the time is left as it was and the error is returned.
set_field_str(t, position, s) ==
  LET r == from_str(position, s)
  IN IF r.ok
     THEN [time |-> [t EXCEPT ![FieldOf(position)] = r.val], ok |-> TRUE, err |-> "None"]
     ELSE [time |-> t, ok |-> FALSE, err |-> r.err]

\* ------------------------------------------------------------------ cursor

\* Cursor::position.
Cursor_position(c) == c.pos

\* Cursor::move_by(motion, multiplier): the moved cursor and the distance it
\* moved, which is short of the multiplier when the motion reaches either
\* end of the splits.
Cursor_move_by(c, motion, multiplier) ==
  LET room == IF motion = "Up" THEN c.pos ELSE c.max - c.pos
      amt == IF multiplier <= room THEN multiplier ELSE room
  IN [cur |-> [c EXCEPT !.pos = IF motion = "Up" THEN c.pos - amt ELSE c.pos + amt],
      amt |-> amt]

Motion == {"Up", "Down"}

Cursors == {[pos |-> p, max |-> NumSplits - 1] : p \in 0..(NumSplits - 1)}

\* ----------------------------------------------------------- event results

\* No result: before the first event, and after Mode::commit, which returns
\* nothing.
NoResult == [kind |-> "None", mode |-> "None", cur |-> None]

Handled == [kind |-> "Handled", mode |-> "None", cur |-> None]

NotHandled == [kind |-> "NotHandled", mode |-> "None", cur |-> None]

\* EventResult::from_handled.
from_handled(handled) == IF handled THEN Handled ELSE NotHandled

\* EventResult::Transition(Box::new(Inactive)).
Transition_Inactive == [kind |-> "Transition", mode |-> "Inactive", cur |-> None]

\* Nav::transition(cur).
Nav_transition(c) == [kind |-> "Transition", mode |-> "Nav", cur |-> Some(c)]

\* ------------------------------------------------------------------ events

NoEvent == [kind |-> "None", edit |-> "-", digit |-> 0, position |-> "-", motion |-> "-"]

Event_Undo == [NoEvent EXCEPT !.kind = "Undo"]

Event_Delete == [NoEvent EXCEPT !.kind = "Delete"]

Event_Add(digit) == [NoEvent EXCEPT !.kind = "Edit", !.edit = "Add", !.digit = digit]

Event_Remove == [NoEvent EXCEPT !.kind = "Edit", !.edit = "Remove"]

Event_EnterField(position) == [NoEvent EXCEPT !.kind = "EnterField", !.position = position]

Event_Cursor(motion) == [NoEvent EXCEPT !.kind = "Cursor", !.motion = motion]

\* Events the editor has no arm for.
OtherEvents == {[NoEvent EXCEPT !.kind = k] : k \in {"Quit"}}

\* The mark left in ev by Mode::commit, which is a call and not an event.
CommitCall == [NoEvent EXCEPT !.kind = "Commit"]

\* ------------------------------------------------------------ field editor

\* editor::Field::new.
Field_new(position) == [position |-> position, string |-> <<>>]

\* Field::add with the capacity test off by one.
Field_add_OffByOne(f, digit) ==
  IF max_digits(f.position) < Len(f.string)
  THEN [field |-> f, ok |-> FALSE]
  ELSE [field |-> [f EXCEPT !.string = @ \o to_string(digit)], ok |-> TRUE]

\* editor::Field::add.
Field_add(f, digit) ==
  IF max_digits(f.position) <= Len(f.string)
  THEN [field |-> f, ok |-> FALSE]
  ELSE [field |-> [f EXCEPT !.string = @ \o to_string(digit)], ok |-> TRUE]

\* Field::remove taking the first character instead of the last.
Field_remove_First(f) ==
  IF f.string = <<>>
  THEN [field |-> f, ok |-> FALSE]
  ELSE [field |-> [f EXCEPT !.string = Tail(@)], ok |-> TRUE]

\* editor::Field::remove: String::pop().is_some().
Field_remove(f) ==
  IF f.string = <<>>
  THEN [field |-> f, ok |-> FALSE]
  ELSE [field |-> [f EXCEPT !.string = SubSeq(@, 1, Len(@) - 1)], ok |-> TRUE]

\* editor::Field::edit.
Field_edit(f, e) ==
  IF e.edit = "Add" THEN Field_add(f, e.digit) ELSE Field_remove(f)

\* editor::Field::commit that stores the number in the buffer without the
\* bound check.
Field_commit_Unchecked(f, t) ==
  [time |-> [t EXCEPT ![FieldOf(f.position)] = parse_u32(f.string).val],
   ok |-> TRUE, err |-> "None"]

\* editor::Field::commit.
Field_commit(f, t) == set_field_str(t, f.position, f.string)

\* ------------------------------------------------------------------ editor

\* Editor::new.
Editor_new(c, position) ==
  [cur |-> c, time |-> Time_default,
   field |-> IF position = None THEN None ELSE Some(Field_new(position[1]))]

\* Editor::with_time.
Editor_with_time(c, t) == [cur |-> c, time |-> t, field |-> None]

\* commit_field dropping the field editor without committing it.
commit_field_Discards(self) == [self EXCEPT !.field = None]

\* commit_field storing the position's maximum when Field::commit fails.
commit_field_Clamps(self) ==
  IF self.field # None
  THEN LET r == Field_commit(self.field[1], self.time)
       IN [self EXCEPT !.field = None,
                       !.time = IF r.ok THEN r.time
                                ELSE [@ EXCEPT ![FieldOf(self.field[1].position)] =
                                                 max(self.field[1].position)]]
  ELSE self

\* Editor::commit_field: the error of Field::commit is dropped.
commit_field(self) ==
  IF self.field # None
  THEN [self EXCEPT !.field = None, !.time = Field_commit(self.field[1], @).time]
  ELSE self

\* Editor::enter_field.
enter_field(self, position) ==
  [self |-> [commit_field(self) EXCEPT !.field = Some(Field_new(position))],
   result |-> Handled]

\* Editor::edit.
edit(self, e) ==
  IF self.field = None
  THEN [self |-> self, result |-> from_handled(FALSE)]
  ELSE LET r == Field_edit(self.field[1], e)
       IN [self |-> [self EXCEPT !.field = Some(r.field)], result |-> from_handled(r.ok)]

\* undo resetting the time along with the field editor.
undo_ClearsAll(self) ==
  IF self.field # None
  THEN [self |-> [self EXCEPT !.field = None, !.time = Time_default], result |-> Handled]
  ELSE IF is_zero(self.time)
  THEN [self |-> self, result |-> NotHandled]
  ELSE [self |-> [self EXCEPT !.time = Time_default], result |-> Handled]

\* Editor::undo.
undo(self) ==
  IF self.field # None
  THEN [self |-> [self EXCEPT !.field = None], result |-> Handled]
  ELSE IF is_zero(self.time)
  THEN [self |-> self, result |-> NotHandled]
  ELSE [self |-> [self EXCEPT !.time = Time_default], result |-> Handled]

\* delete leaving the time as it is.
delete_KeepsTime(self) ==
  [self |-> [self EXCEPT !.field = None], result |-> Nav_transition(self.cur)]

\* Editor::delete.
delete(self) ==
  [self |-> [self EXCEPT !.field = None, !.time = Time_default],
   result |-> Nav_transition(self.cur)]

\* move_cursor going inactive on any short motion, Up included.
move_cursor_AnyShort(self, motion) ==
  LET m == Cursor_move_by(self.cur, motion, 1)
  IN IF m.amt # 1
     THEN [self |-> self, result |-> Transition_Inactive]
     ELSE [self |-> self, result |-> Nav_transition(m.cur)]

\* move_cursor making the motion on the editor's own cursor.
move_cursor_MovesEditor(self, motion) ==
  LET m == Cursor_move_by(self.cur, motion, 1)
  IN IF m.amt # 1 /\ motion = "Down"
     THEN [self |-> [self EXCEPT !.cur = m.cur], result |-> Transition_Inactive]
     ELSE [self |-> [self EXCEPT !.cur = m.cur], result |-> Nav_transition(m.cur)]

\* Editor::move_cursor: the motion is made on a copy of the cursor.
move_cursor(self, motion) ==
  LET m == Cursor_move_by(self.cur, motion, 1)
  IN IF m.amt # 1 /\ motion = "Down"
     THEN [self |-> self, result |-> Transition_Inactive]
     ELSE [self |-> self, result |-> Nav_transition(m.cur)]

\* handle_event with the catch-all arm falling into undo.
handle_event_FallsToUndo(self, e) ==
  CASE e.kind = "Undo" -> undo(self)
    [] e.kind = "Delete" -> delete(self)
    [] e.kind = "Edit" -> edit(self, e)
    [] e.kind = "EnterField" -> enter_field(self, e.position)
    [] e.kind = "Cursor" -> move_cursor(self, e.motion)
    [] OTHER -> undo(self)

\* Mode::handle_event for Editor.
handle_event(self, e) ==
  CASE e.kind = "Undo" -> undo(self)
    [] e.kind = "Delete" -> delete(self)
    [] e.kind = "Edit" -> edit(self, e)
    [] e.kind = "EnterField" -> enter_field(self, e.position)
    [] e.kind = "Cursor" -> move_cursor(self, e.motion)
    [] OTHER -> [self |-> self, result |-> NotHandled]

\* Run::push_to(position, time): one more time stored at the split.
push_to(r, position, t) == [r EXCEPT ![position] = @ + 1]

\* commit calling push_to twice.
commit_PushesTwice(self, r) ==
  LET s == commit_field(self)
      call == [position |-> Cursor_position(s.cur), time |-> s.time]
  IN [self |-> [s EXCEPT !.time = Time_default],
      run |-> push_to(push_to(r, call.position, call.time), call.position, call.time),
      calls |-> <<call, call>>]

\* commit pushing the time before the field editor is folded into it.
commit_PushesFirst(self, r) ==
  LET s == commit_field(self)
  IN [self |-> [s EXCEPT !.time = Time_default],
      run |-> push_to(r, Cursor_position(self.cur), self.time),
      calls |-> <<[position |-> Cursor_position(self.cur), time |-> self.time]>>]

\* Mode::commit for Editor: the editor it leaves, the run it leaves and the
\* push_to calls it made.
commit(self, r) ==
  LET s == commit_field(self)
  IN [self |-> [s EXCEPT !.time = Time_default],
      run |-> push_to(r, Cursor_position(s.cur), s.time),
      calls |-> <<[position |-> Cursor_position(s.cur), time |-> s.time]>>]

\* ----------------------------------------------------------- time addition

\* add_carry<T> at a T of the given bit width.  l + r + carry is computed in
\* T: when it exceeds T's range a build with overflow checks panics and a
\* build without them wraps.
add_carry(l, r, carry, modulo, width, checks) ==
  LET exact == l + r + carry
      limit == 2 ^ width
      raw == exact % limit
      added == raw % modulo
  IN [panic |-> checks /\ exact >= limit,
      added |-> added,
      carry |-> (raw - added) \div modulo]

\* impl Add for Time: the Time, or a panic.
Time_add(a, b, checks) ==
  LET m == add_carry(a.micros, b.micros, 0, 1000, 16, checks)
      \* u8::try_from(carry_secs).unwrap()
      conv == m.carry > 255
      s == add_carry(a.secs, b.secs, m.carry % 256, 60, 8, checks)
      n == add_carry(a.mins, b.mins, s.carry, 60, 8, checks)
      h == add_carry(a.hours, b.hours, n.carry, 255, 8, checks)
  IN [panic |-> m.panic \/ conv \/ s.panic \/ n.panic \/ h.panic,
      time |-> [hours |-> h.added % 256, mins |-> n.added % 256,
                secs |-> s.added % 256, micros |-> m.added]]

AddTimes ==
  [hours : AddHours, mins : AddMins, secs : AddSecs, micros : AddMicros]

\* ------------------------------------------------------------ time strings

\* The Field enum of model/time.rs.
TimeField == {"Hours", "Minutes", "Seconds", "Micros"}

\* Field::delimiter: the character that ends the field in a time string,
\* as its ASCII code ('h', 'm', 's', ' ').
delimiter(f) ==
  CASE f = "Hours" -> 104
    [] f = "Minutes" -> 109
    [] f = "Seconds" -> 115
    [] f = "Micros" -> 32

\* Field::max of model/time.rs.
Field_max(f) ==
  CASE f = "Hours" -> 255
    [] f \in {"Minutes", "Seconds"} -> 59
    [] f = "Micros" -> 999

RECURSIVE parse_uint(_, _, _)
\* The digit loop of str::parse::<T> for an unsigned T of the given bit
\* width: a character that is no digit is InvalidDigit, a value that leaves
\* T is PosOverflow.
parse_uint(s, acc, width) ==
  IF s = <<>> THEN [ok |-> TRUE, val |-> acc, kind |-> "None"]
  ELSE IF s[1] \notin 0..9 THEN [ok |-> FALSE, val |-> 0, kind |-> "InvalidDigit"]
  ELSE IF acc * 10 + s[1] >= 2 ^ width
       THEN [ok |-> FALSE, val |-> 0, kind |-> "PosOverflow"]
  ELSE parse_uint(Tail(s), acc * 10 + s[1], width)

\* str::parse::<T>: the empty string is an error of kind Empty.
parse(s, width) ==
  IF s = <<>> THEN [ok |-> FALSE, val |-> 0, kind |-> "Empty"]
  ELSE parse_uint(s, 0, width)

\* parse_inner::<T>: s parsed as a T of the given bit width, then compared
\* with the field's maximum.
parse_inner(s, f, width) ==
  LET r == parse(s, width)
  IN IF ~r.ok
     THEN [ok |-> FALSE, val |-> 0, err |-> "FieldParseError", errval |-> 0]
     ELSE IF r.val <= Field_max(f)
     THEN [ok |-> TRUE, val |-> r.val, err |-> "None", errval |-> 0]
     ELSE [ok |-> FALSE, val |-> 0, err |-> "FieldTooBigError", errval |-> r.val]

\* str::find(char): the index of the first occurrence of c in s, counted
\* from 1; 0 when there is none.
find(s, c) ==
  IF \E i \in 1..Len(s) : s[i] = c
  THEN CHOOSE i \in 1..Len(s) : s[i] = c /\ \A j \in 1..(i - 1) : s[j] # c
  ELSE 0

\* parse_component without the strip_prefix: the rest of the string starts
\* at the delimiter.
parse_component_KeepsDelimiter(s, f) ==
  LET ix == find(s, delimiter(f))
  IN IF ix # 0
     THEN parse_inner(SubSeq(s, 1, ix - 1), f, 8) @@ [rest |-> SubSeq(s, ix, Len(s))]
     ELSE [ok |-> TRUE, val |-> 0, err |-> "None", errval |-> 0, rest |-> s]

\* parse_component: the u8 before the field's delimiter and the rest of the
\* string after it; 0 and the whole string when the delimiter is absent.
parse_component(s, f) ==
  LET ix == find(s, delimiter(f))
  IN IF ix # 0
     THEN parse_inner(SubSeq(s, 1, ix - 1), f, 8) @@ [rest |-> SubSeq(s, ix + 1, Len(s))]
     ELSE [ok |-> TRUE, val |-> 0, err |-> "None", errval |-> 0, rest |-> s]

\* parse_micros.
parse_micros(s) ==
  IF s = <<>> THEN [ok |-> TRUE, val |-> 0, err |-> "None", errval |-> 0]
  ELSE parse_inner(s, "Micros", 16)

\* Result<Time, ParseError>::Err.
Time_Err(f, r) ==
  [ok |-> FALSE, time |-> Time_default, err |-> r.err, field |-> f]

\* FromStr for Time.
Time_from_str(s) ==
  LET h == parse_component(s, "Hours")
      m == parse_component(h.rest, "Minutes")
      c == parse_component(m.rest, "Seconds")
      u == parse_micros(c.rest)
  IN IF ~h.ok THEN Time_Err("Hours", h)
     ELSE IF ~m.ok THEN Time_Err("Minutes", m)
     ELSE IF ~c.ok THEN Time_Err("Seconds", c)
     ELSE IF ~u.ok THEN Time_Err("Micros", u)
     ELSE [ok |-> TRUE,
           time |-> [hours |-> h.val, mins |-> m.val, secs |-> c.val, micros |-> u.val],
           err |-> "None", field |-> "-"]

RECURSIVE fmt_uint(_)
\* "{}" of an unsigned integer: its decimal digits, without padding.
fmt_uint(n) ==
  IF n < 10 THEN <<n>> ELSE fmt_uint(n \div 10) \o <<n % 10>>

\* Display for Time with the seconds written only when they are not zero.
Time_fmt_SkipsZeroSeconds(t) ==
  (IF 0 < t.hours THEN fmt_uint(t.hours) \o <<delimiter("Hours")>> ELSE <<>>)
  \o (IF 0 < t.mins THEN fmt_uint(t.mins) \o <<delimiter("Minutes")>> ELSE <<>>)
  \o (IF 0 < t.secs THEN fmt_uint(t.secs) \o <<delimiter("Seconds")>> ELSE <<>>)
  \o (IF 0 < t.micros THEN fmt_uint(t.micros) ELSE <<>>)

\* Display for Time.
Time_fmt(t) ==
  (IF 0 < t.hours THEN fmt_uint(t.hours) \o <<delimiter("Hours")>> ELSE <<>>)
  \o (IF 0 < t.mins THEN fmt_uint(t.mins) \o <<delimiter("Minutes")>> ELSE <<>>)
  \o fmt_uint(t.secs) \o <<delimiter("Seconds")>>
  \o (IF 0 < t.micros THEN fmt_uint(t.micros) ELSE <<>>)

\* ----------------------------------------------------------------- colours

\* The variants of Pace that Set::by_pace matches on.
Pace == {"PersonalBest", "Behind", "Ahead", "Inconclusive"}

\* The variants of SplitPosition that Set::by_split_position matches on.
SplitPosition == {"Done", "Cursor", "Coming"}

\* enum Key; pos and pace are "-" in the variants that carry none.
Key ==
  {[kind |-> k, pos |-> "-", pace |-> "-"] : k \in {"Editor", "FieldEditor", "Header", "NoTime"}}
  \cup {[kind |-> "Name", pos |-> sp, pace |-> "-"] : sp \in SplitPosition}
  \cup {[kind |-> "Pace", pos |-> "-", pace |-> pc] : pc \in Pace}

\* Set::by_pace.
by_pace(self, pace) ==
  CASE pace = "PersonalBest" -> self.fg_time_split_ahead
    [] pace = "Behind" -> self.fg_time_run_ahead
    [] pace = "Ahead" -> self.fg_time_run_behind
    [] pace = "Inconclusive" -> self.fg_normal

\* Set::by_split_position.
by_split_position(self, sp) ==
  CASE sp = "Done" -> self.fg_done
    [] sp = "Cursor" -> self.fg_cursor
    [] sp = "Coming" -> self.fg_normal

\* Set::by_key.
by_key(self, k) ==
  CASE k.kind = "Header" -> self.fg_header
    [] k.kind = "Name" -> by_split_position(self, k.pos)
    [] k.kind = "NoTime" -> self.fg_time_none
    [] k.kind = "Pace" -> by_pace(self, k.pace)
    [] k.kind = "Editor" -> self.fg_editor
    [] k.kind = "FieldEditor" -> self.fg_editor_field

\* The colour Sets looked up in: the four colours by_pace chooses among are
\* drawn from the Palette, the others are fixed.
Sets ==
  {[bg |-> "black", fg_editor |-> "white", fg_editor_field |-> "white",
    fg_header |-> "white", fg_done |-> "grey", fg_normal |-> n,
    fg_cursor |-> "white", fg_time_none |-> "grey",
    fg_time_run_ahead |-> a, fg_time_split_ahead |-> g, fg_time_run_behind |-> b] :
     n \in Palette, a \in Palette, g \in Palette, b \in Palette}

\* ---------------------------------------------------------- specification

Self == [cur |-> cur, time |-> time, field |-> field]

\* What a call finds on entry: the editor and the run.
Entry == [cur |-> cur, time |-> time, field |-> field, run |-> run]

InitEditor ==
  /\ \E c \in Cursors :
       \/ \E p \in {None} \cup {Some(n) : n \in Name} :
            /\ cur = Editor_new(c, p).cur
            /\ time = Editor_new(c, p).time
            /\ field = Editor_new(c, p).field
       \/ \E t \in InitTimes :
            /\ cur = Editor_with_time(c, t).cur
            /\ time = Editor_with_time(c, t).time
            /\ field = Editor_with_time(c, t).field
  /\ run = [i \in 0..(NumSplits - 1) |-> 0]
  /\ ev = NoEvent
  /\ res = NoResult
  /\ pre = Entry
  /\ pushed = <<>>
  /\ undos = 0

AddIdle ==
  /\ lhs = Time_default
  /\ rhs = Time_default
  /\ sum = None

StringIdle ==
  /\ origin = None
  /\ text = None
  /\ parsed = None

FieldIdle ==
  /\ fin = [position |-> "Hours", string |-> <<>>, val |-> 0]
  /\ fout = None

ColourIdle ==
  /\ set = [bg |-> "black", fg_editor |-> "white", fg_editor_field |-> "white",
            fg_header |-> "white", fg_done |-> "grey", fg_normal |-> "white",
            fg_cursor |-> "white", fg_time_none |-> "grey",
            fg_time_run_ahead |-> "green", fg_time_split_ahead |-> "green",
            fg_time_run_behind |-> "red"]
  /\ key = [kind |-> "Header", pos |-> "-", pace |-> "-"]
  /\ colour = None

Init == InitEditor /\ AddIdle /\ StringIdle /\ FieldIdle /\ ColourIdle

\* One call of handle_event with event e: what it does to the editor, and
\* the record of the call.
Handle(e) ==
  LET out == handle_event(Self, e)
  IN /\ cur' = out.self.cur
     /\ time' = out.self.time
     /\ field' = out.self.field
     /\ res' = out.result
     /\ pre' = Entry
     /\ pushed' = <<>>
     /\ undos' = IF e.kind = "Undo" THEN (IF undos < 3 THEN undos + 1 ELSE 3) ELSE 0
     /\ UNCHANGED run
     /\ UNCHANGED <<addVars, stringVars, fieldVars, colourVars>>

Undo ==
  /\ ev' = Event_Undo
  /\ Handle(Event_Undo)

Delete ==
  /\ ev' = Event_Delete
  /\ Handle(Event_Delete)

EditAdd ==
  \E d \in Digits :
    /\ ev' = Event_Add(d)
    /\ Handle(Event_Add(d))

EditRemove ==
  /\ ev' = Event_Remove
  /\ Handle(Event_Remove)

EnterField ==
  \E p \in Name :
    /\ ev' = Event_EnterField(p)
    /\ Handle(Event_EnterField(p))

CursorMotion ==
  \E m \in Motion :
    /\ ev' = Event_Cursor(m)
    /\ Handle(Event_Cursor(m))

Other ==
  \E e \in OtherEvents :
    /\ ev' = e
    /\ Handle(e)

\* One call of Mode::commit.
Commit ==
  /\ run[Cursor_position(cur)] < MaxPushes
  /\ LET out == commit(Self, run)
     IN /\ cur' = out.self.cur
        /\ time' = out.self.time
        /\ field' = out.self.field
        /\ run' = out.run
        /\ pushed' = out.calls
  /\ ev' = CommitCall
  /\ res' = NoResult
  /\ pre' = Entry
  /\ undos' = 0
  /\ UNCHANGED <<addVars, stringVars, fieldVars, colourVars>>

Next ==
  \/ Undo
  \/ Delete
  \/ EditAdd
  \/ EditRemove
  \/ EnterField
  \/ CursorMotion
  \/ Other
  \/ Commit

Spec == Init /\ [][Next]_vars

\* An editor nothing has been done with.
EditorIdle ==
  /\ cur = [pos |-> 0, max |-> NumSplits - 1]
  /\ time = Time_default
  /\ field = None
  /\ run = [i \in 0..(NumSplits - 1) |-> 0]
  /\ ev = NoEvent
  /\ res = NoResult
  /\ pre = Entry
  /\ pushed = <<>>
  /\ undos = 0

\* Time addition on operands drawn from AddTimes.
InitAdd ==
  /\ EditorIdle
  /\ lhs \in AddTimes
  /\ rhs \in AddTimes
  /\ sum = None
  /\ StringIdle
  /\ FieldIdle
  /\ ColourIdle

\* lhs + rhs, in a build with or without overflow checks.
Add ==
  /\ sum = None
  /\ \E checks \in BOOLEAN :
       sum' = Some([checks |-> checks] @@ Time_add(lhs, rhs, checks))
  /\ UNCHANGED <<lhs, rhs>>
  /\ UNCHANGED <<editorVars, stringVars, fieldVars, colourVars>>

NextAdd == Add

SpecAdd == InitAdd /\ [][NextAdd]_vars

\* Editor sessions and Time additions side by side: either an editor that
\* handles events and commits, or one addition of two Times.
InitBounds == Init \/ InitAdd

EditorStep ==
  /\ AddIdle
  /\ Next

AddStep ==
  /\ ev = NoEvent
  /\ NextAdd

NextBounds ==
  \/ EditorStep
  \/ AddStep

SpecBounds == InitBounds /\ [][NextBounds]_vars

\* A component of a time string: absent, or one of the numbers followed by
\* the field's delimiter.
Component(numbers, f) ==
  {<<>>} \cup {n \o <<delimiter(f)>> : n \in numbers}

\* The time strings built from any subset of the components, in order.
BuiltStrings ==
  { h \o m \o c \o u :
      h \in Component(ParseHours, "Hours"), m \in Component(ParseMins, "Minutes"),
      c \in Component(ParseSecs, "Seconds"), u \in {<<>>} \cup ParseMicros }

FormatTimes ==
  [hours : FormatHours, mins : FormatMins, secs : FormatSecs, micros : FormatMicros]

\* Parsing and formatting of Times: a string to parse, or a Time to format.
InitStrings ==
  /\ EditorIdle
  /\ AddIdle
  /\ FieldIdle
  /\ ColourIdle
  /\ \/ origin = None /\ text \in {Some(s) : s \in BuiltStrings \cup OddStrings}
     \/ origin \in {Some(t) : t \in FormatTimes} /\ text = None
  /\ parsed = None

\* format!("{}", origin).
Format ==
  /\ origin # None
  /\ text = None
  /\ text' = Some(Time_fmt(origin[1]))
  /\ UNCHANGED <<origin, parsed>>
  /\ UNCHANGED <<editorVars, addVars, fieldVars, colourVars>>

\* text.parse::<Time>().
Parse ==
  /\ text # None
  /\ parsed = None
  /\ parsed' = Some(Time_from_str(text[1]))
  /\ UNCHANGED <<origin, text>>
  /\ UNCHANGED <<editorVars, addVars, fieldVars, colourVars>>

\* format!("{}", t) of the Time t a string parsed to.
Reformat ==
  /\ origin = None
  /\ parsed # None
  /\ parsed[1].ok
  /\ origin' = Some(parsed[1].time)
  /\ text' = Some(Time_fmt(parsed[1].time))
  /\ parsed' = None
  /\ UNCHANGED <<editorVars, addVars, fieldVars, colourVars>>

NextStrings ==
  \/ Format
  \/ Parse
  \/ Reformat

SpecStrings == InitStrings /\ [][NextStrings]_vars

\* The Field of model/time.rs that a position is.
TimeFieldOf(position) ==
  IF position = "Milliseconds" THEN "Micros" ELSE position

\* The integer type parse_inner is instantiated at for a field: u8 in
\* parse_component, u16 in parse_micros.
WidthOf(f) == IF f = "Micros" THEN 16 ELSE 8

\* Field::default.
Field_default == 0

\* The constructors and parsers of a single field, on inputs drawn from
\* FieldStrings and FieldVals.
InitField ==
  /\ EditorIdle
  /\ AddIdle
  /\ StringIdle
  /\ ColourIdle
  /\ fin \in [position : Name, string : FieldStrings, val : FieldVals]
  /\ fout = None

\* What an operation on fin leaves alone.
FieldFrame ==
  /\ UNCHANGED fin
  /\ UNCHANGED <<editorVars, addVars, stringVars, colourVars>>

\* fin.string.parse::<Field<P>>().
FromStr ==
  /\ fout = None
  /\ fout' = Some([op |-> "from_str", out |-> from_str(fin.position, fin.string)])
  /\ FieldFrame

\* parse_inner(fin.string, field).
ParseInner ==
  /\ fout = None
  /\ fout' = Some([op |-> "parse_inner",
                   out |-> parse_inner(fin.string, TimeFieldOf(fin.position),
                                       WidthOf(TimeFieldOf(fin.position)))])
  /\ FieldFrame

\* Field::<P>::new_with_carry(fin.val).
NewWithCarry ==
  /\ fout = None
  /\ fout' = Some([op |-> "new_with_carry", out |-> new_with_carry(fin.position, fin.val)])
  /\ FieldFrame

\* Field::<P>::try_from(fin.val).
TryFrom ==
  /\ fout = None
  /\ fout' = Some([op |-> "try_from", out |-> try_from(fin.position, fin.val)])
  /\ FieldFrame

\* Field::<P>::default().
Default ==
  /\ fout = None
  /\ fout' = Some([op |-> "default", out |-> [value |-> Field_default]])
  /\ FieldFrame

NextField ==
  \/ FromStr
  \/ ParseInner
  \/ NewWithCarry
  \/ TryFrom
  \/ Default

SpecField == InitField /\ [][NextField]_vars

\* Colour lookups: every Key in every Set of Sets.
InitColour ==
  /\ EditorIdle
  /\ AddIdle
  /\ StringIdle
  /\ FieldIdle
  /\ set \in Sets
  /\ key \in Key
  /\ colour = None

\* set.by_key(key).
ByKey ==
  /\ colour = None
  /\ colour' = Some(by_key(set, key))
  /\ UNCHANGED <<set, key>>
  /\ UNCHANGED <<editorVars, addVars, stringVars, fieldVars>>

NextColour == ByKey

SpecColour == InitColour /\ [][NextColour]_vars

\* ------------------------------------------------------------------ claims

RECURSIVE Written(_)
\* The number written in a buffer of decimal digits; the empty buffer
\* writes 0.
Written(b) ==
  IF b = <<>> THEN 0 ELSE 10 * Written(SubSeq(b, 1, Len(b) - 1)) + b[Len(b)]

\* The last call was handle_event with an event of this kind.
Handling(kind) == ev.kind = kind

\* The editor as the last call left it.
Left == [cur |-> cur, time |-> time, field |-> field]

\* The editor as the last call found it.
Found == [cur |-> pre.cur, time |-> pre.time, field |-> pre.field]

\* t with the buffer b of a field editor for position p folded in: the field
\* is set when the number written fits the position, and kept otherwise.
Folded(t, p, b) ==
  IF Written(b) <= max(p) THEN [t EXCEPT ![FieldOf(p)] = Written(b)] ELSE t

\* C1: the active FieldEditor's buffer is never longer than the maximum digit
\* count of its position (0 for Hours, 2 for Minutes and Seconds, 3 for
\* Milliseconds), whatever u8 values Edit(Add(d)) delivers.
C1_BufferWithinMaxDigits ==
  field # None => Len(field[1].string) <= max_digits(field[1].position)

\* C2 as stated: EnterField(q) on an active FieldEditor for p with buffer b
\* leaves the p field of time equal to the number written in b, for every
\* buffer b, the other fields unchanged, a fresh FieldEditor for q, Handled.
C2_EnterFieldCommitsEveryBuffer ==
  (Handling("EnterField") /\ pre.field # None) =>
    /\ time = [pre.time EXCEPT ![FieldOf(pre.field[1].position)] =
                                  Written(pre.field[1].string)]
    /\ field = Some([position |-> ev.position, string |-> <<>>])
    /\ res = Handled

\* C2 as amended: EnterField(q) on an active FieldEditor for p with buffer b
\* leaves the p field of time equal to the number written in b when that
\* number is at most p's maximum, and leaves time as it was otherwise; the
\* other three fields are unchanged, the FieldEditor is a fresh empty one
\* for q and the result is Handled.
C2_EnterFieldCommitsInBounds ==
  (Handling("EnterField") /\ pre.field # None) =>
    /\ time = Folded(pre.time, pre.field[1].position, pre.field[1].string)
    /\ field = Some([position |-> ev.position, string |-> <<>>])
    /\ res = Handled

\* An EnterField(Seconds) that committed the Milliseconds buffer "96" into a
\* time whose milliseconds were not 96.
C2_Witness ==
  /\ Handling("EnterField")
  /\ ev.position = "Seconds"
  /\ pre.field = Some([position |-> "Milliseconds", string |-> <<9, 6>>])
  /\ pre.time.micros # 96
  /\ time.micros = 96
  /\ field = Some([position |-> "Seconds", string |-> <<>>])

\* C3: Undo with an active FieldEditor discards only the FieldEditor and is
\* Handled; with none and a nonzero time it resets time to zero and is
\* Handled; with none and a zero time it changes nothing and is NotHandled;
\* so the third of three Undo events in a row is always NotHandled.
C3_UndoTwoStaged ==
  /\ (Handling("Undo") /\ pre.field # None) =>
       (field = None /\ time = pre.time /\ cur = pre.cur /\ res = Handled)
  /\ (Handling("Undo") /\ pre.field = None /\ pre.time # Time_default) =>
       (field = None /\ time = Time_default /\ cur = pre.cur /\ res = Handled)
  /\ (Handling("Undo") /\ pre.field = None /\ pre.time = Time_default) =>
       (Left = Found /\ res = NotHandled)
  /\ undos = 3 => res = NotHandled

\* The second of two Undo events in a row, resetting the nonzero time the
\* first one left when it discarded the FieldEditor.
C3_Witness ==
  /\ Handling("Undo")
  /\ undos = 2
  /\ pre.field = None
  /\ pre.time # Time_default
  /\ time = Time_default
  /\ res = Handled

\* C4: commit folds the active FieldEditor into time, then calls push_to
\* exactly once, with the cursor's position and that time; it leaves the zero
\* time and no FieldEditor, so a commit right after a commit pushes the zero
\* time.
C4_CommitPushesFoldedTime ==
  /\ [](Handling("Commit") =>
         LET t == IF pre.field = None THEN pre.time
                  ELSE Folded(pre.time, pre.field[1].position, pre.field[1].string)
         IN /\ pushed = <<[position |-> pre.cur.pos, time |-> t]>>
            /\ run = [pre.run EXCEPT ![pre.cur.pos] = @ + 1]
            /\ time = Time_default
            /\ field = None
            /\ cur = pre.cur)
  /\ [][(Handling("Commit") /\ ev'.kind = "Commit") =>
          pushed' = <<[position |-> cur.pos, time |-> Time_default]>>]_vars

\* A commit that folded the Milliseconds buffer "96" into a time of one hour
\* and pushed the result.
C4_Witness ==
  /\ Handling("Commit")
  /\ pre.field = Some([position |-> "Milliseconds", string |-> <<9, 6>>])
  /\ pre.time = [hours |-> 1, mins |-> 0, secs |-> 0, micros |-> 0]
  /\ pushed = <<[position |-> cur.pos,
                 time |-> [hours |-> 1, mins |-> 0, secs |-> 0, micros |-> 96]]>>

\* C5: a Cursor(motion) event always returns a transition: to Inactive when
\* the motion is Down and move_by(Down, 1) on the copy returns a distance
\* other than 1, and otherwise to Navigation at the moved copy's position.
C5_CursorAlwaysTransitions ==
  Handling("Cursor") =>
    LET m == Cursor_move_by(pre.cur, ev.motion, 1)
    IN /\ res.kind = "Transition"
       /\ (ev.motion = "Down" /\ m.amt # 1) => res = Transition_Inactive
       /\ ~(ev.motion = "Down" /\ m.amt # 1) =>
            (res.mode = "Nav" /\ res.cur = Some(m.cur))

\* A Cursor(Up) on the first split: the copy moves 0 and the result is still
\* a transition to Navigation, at the first split.
C5_Witness ==
  /\ Handling("Cursor")
  /\ ev.motion = "Up"
  /\ pre.cur.pos = 0
  /\ res.mode = "Nav"
  /\ res.cur = Some(pre.cur)

\* C6: Edit(Add(digit)) on an active FieldEditor whose buffer has reached the
\* position's maximum digit count leaves the buffer as it is and is
\* NotHandled; otherwise the digit is appended at the end and it is Handled.
\* An Hours FieldEditor accepts no digit.
C6_AddAppendsBelowCapacity ==
  (Handling("Edit") /\ ev.edit = "Add" /\ pre.field # None) =>
    LET f == pre.field[1]
    IN /\ Len(f.string) >= max_digits(f.position) =>
            (field = pre.field /\ res = NotHandled)
       /\ Len(f.string) < max_digits(f.position) =>
            /\ field = Some([f EXCEPT !.string = f.string \o to_string(ev.digit)])
            /\ res = Handled
       /\ f.position = "Hours" => (field = pre.field /\ res = NotHandled)

\* An Add(9) accepted by a Milliseconds FieldEditor holding "96".
C6_Witness ==
  /\ Handling("Edit")
  /\ ev.edit = "Add"
  /\ ev.digit = 9
  /\ pre.field = Some([position |-> "Milliseconds", string |-> <<9, 6>>])
  /\ field = Some([position |-> "Milliseconds", string |-> <<9, 6, 9>>])
  /\ res = Handled

\* C7: Edit(Remove) on an active FieldEditor removes exactly the last
\* character of a nonempty buffer and is Handled, and leaves an empty buffer
\* as it is and is NotHandled; a Remove right after an accepted Add of a
\* single digit restores the buffer the Add found.
C7_RemoveDropsLast ==
  /\ []((Handling("Edit") /\ ev.edit = "Remove" /\ pre.field # None) =>
         LET f == pre.field[1]
         IN /\ f.string # <<>> =>
                 /\ field = Some([f EXCEPT !.string = SubSeq(f.string, 1, Len(f.string) - 1)])
                 /\ res = Handled
            /\ f.string = <<>> => (field = pre.field /\ res = NotHandled))
  /\ [][(/\ Handling("Edit") /\ ev.edit = "Add" /\ ev.digit < 10 /\ res = Handled
         /\ ev'.kind = "Edit" /\ ev'.edit = "Remove") =>
          (field' = pre.field /\ res' = Handled)]_vars

\* A Remove that took the "6" off a Seconds buffer "96".
C7_Witness ==
  /\ Handling("Edit")
  /\ ev.edit = "Remove"
  /\ pre.field = Some([position |-> "Seconds", string |-> <<9, 6>>])
  /\ field = Some([position |-> "Seconds", string |-> <<9>>])
  /\ res = Handled

\* C8: Delete discards the active FieldEditor, resets time to zero and
\* returns a transition to Navigation at the editor's own, unmoved cursor
\* position; it writes nothing to the run.
C8_DeleteResets ==
  Handling("Delete") =>
    /\ field = None
    /\ time = Time_default
    /\ cur = pre.cur
    /\ res = Nav_transition(pre.cur)
    /\ run = pre.run
    /\ pushed = <<>>

\* A Delete that found an active FieldEditor and a nonzero time.
C8_Witness ==
  /\ Handling("Delete")
  /\ pre.field # None
  /\ pre.time # Time_default
  /\ field = None
  /\ time = Time_default

\* C9: when handle_event returns NotHandled the cursor, time and FieldEditor
\* are as they were; it returns NotHandled for every event other than Undo,
\* Delete, Edit, EnterField and Cursor, and for every Edit when no
\* FieldEditor is active.
C9_NotHandledChangesNothing ==
  /\ (ev.kind \notin {"None", "Commit"} /\ res = NotHandled) => Left = Found
  /\ ev \in OtherEvents => res = NotHandled
  /\ (Handling("Edit") /\ pre.field = None) => res = NotHandled

\* An event the editor has no arm for, arriving while a FieldEditor with a
\* nonempty buffer is active.
C9_Witness ==
  /\ ev \in OtherEvents
  /\ pre.field # None
  /\ pre.field[1].string # <<>>
  /\ pre.time # Time_default
  /\ res = NotHandled

\* Field by field, finest first: (l + r + carry) mod capacity, the quotient
\* carried on, with capacities 1000, 60, 60 and 256.
CarrySum(a, b) ==
  LET m == a.micros + b.micros
      s == a.secs + b.secs + (m \div 1000)
      n == a.mins + b.mins + (s \div 60)
      h == a.hours + b.hours + (n \div 60)
  IN [hours |-> h % 256, mins |-> n % 60, secs |-> s % 60, micros |-> m % 1000]

\* The millisecond total of a time.
Millis(t) == ((t.hours * 60 + t.mins) * 60 + t.secs) * 1000 + t.micros

\* C10: for in-bounds Times a and b, each field of a + b is
\* (a.f + b.f + carry_in) mod capacity(f) with capacities 1000, 60, 60 and
\* 256; the millisecond total of a + b is (ms(a) + ms(b)) mod 256 hours; and
\* a + zero = a.
C10_AddCarriesModCapacity ==
  (sum # None /\ ~sum[1].panic) =>
    /\ sum[1].time = CarrySum(lhs, rhs)
    /\ Millis(sum[1].time) = (Millis(lhs) + Millis(rhs)) % (256 * 3600000)
    /\ rhs = Time_default => sum[1].time = lhs

\* l + r + carry of each field, finest first, as exact integers with the
\* carry of the field below taken modulo 1000, 60 and 60.
Intermediate(a, b) ==
  LET m == a.micros + b.micros
      s == a.secs + b.secs + (m \div 1000)
      n == a.mins + b.mins + (s \div 60)
      h == a.hours + b.hours + (n \div 60)
  IN [hours |-> h, mins |-> n, secs |-> s, micros |-> m]

\* C11: for in-bounds Times a and b the addition never fails: every
\* intermediate l + r + carry fits its machine width (8 bits for hours,
\* minutes and seconds, 16 bits for sub-seconds), the carry out of the
\* sub-seconds converts to 8 bits, and a Time is returned in every build.
C11_AddNeverFails ==
  sum # None =>
    /\ Intermediate(lhs, rhs).micros < 2 ^ 16
    /\ Intermediate(lhs, rhs).micros \div 1000 < 2 ^ 8
    /\ Intermediate(lhs, rhs).secs < 2 ^ 8
    /\ Intermediate(lhs, rhs).mins < 2 ^ 8
    /\ Intermediate(lhs, rhs).hours < 2 ^ 8
    /\ ~sum[1].panic

\* The components a time string is built from: each one absent, or a number
\* of the component's set.
Parts ==
  [h : {None} \cup {Some(n) : n \in ParseHours},
   m : {None} \cup {Some(n) : n \in ParseMins},
   s : {None} \cup {Some(n) : n \in ParseSecs},
   u : {None} \cup {Some(n) : n \in ParseMicros}]

\* The string "<H>h<M>m<S>s<U>" with the absent components left out.
Built(p) ==
  (IF p.h # None THEN p.h[1] \o <<delimiter("Hours")>> ELSE <<>>)
  \o (IF p.m # None THEN p.m[1] \o <<delimiter("Minutes")>> ELSE <<>>)
  \o (IF p.s # None THEN p.s[1] \o <<delimiter("Seconds")>> ELSE <<>>)
  \o (IF p.u # None THEN p.u[1] ELSE <<>>)

\* The Time the components denote: absent components are zero.
Denoted(p) ==
  [hours |-> IF p.h # None THEN Written(p.h[1]) ELSE 0,
   mins |-> IF p.m # None THEN Written(p.m[1]) ELSE 0,
   secs |-> IF p.s # None THEN Written(p.s[1]) ELSE 0,
   micros |-> IF p.u # None THEN Written(p.u[1]) ELSE 0]

\* C12: a time string built from any subset of the components <H>h, <M>m,
\* <S>s and a trailing <U>, in that order, each number within its field's
\* bound, parses successfully to exactly H, M, S and U with the absent
\* components zero; so "" parses to the zero Time and a bare number is the
\* sub-seconds.
C12_ParseBuiltString ==
  \A p \in Parts :
    (text = Some(Built(p)) /\ parsed # None) =>
      /\ parsed[1].ok
      /\ parsed[1].time = Denoted(p)

\* "1h2m3s456" parsed to 1 hour, 2 minutes, 3 seconds and 456 sub-seconds.
C12_Witness ==
  /\ text = Some(<<1, 104, 2, 109, 3, 115, 4, 5, 6>>)
  /\ parsed # None
  /\ parsed[1].ok
  /\ parsed[1].time = [hours |-> 1, mins |-> 2, secs |-> 3, micros |-> 456]

RECURSIVE Significant(_)
\* A decimal string without its leading zeros.
Significant(s) ==
  IF s # <<>> /\ s[1] = 0 THEN Significant(Tail(s)) ELSE s

\* The number written in the decimal string s is greater than m, for an m
\* of at most four digits.
Exceeds(s, m) ==
  Len(Significant(s)) > 4 \/ Written(Significant(s)) > m

\* C13: for every position P and every nonempty string of decimal digits
\* writing n, parsing the string as a field of P succeeds with value n when
\* n <= P.max, and fails with FieldTooBig when n > P.max, never with
\* FieldParse, for every n above the maximum: also for n >= 256 in hours,
\* minutes and seconds and n >= 65536 in sub-seconds.
C13_AboveMaxIsTooBig ==
  (fout # None /\ fout[1].op \in {"from_str", "parse_inner"} /\ fin.string # <<>>) =>
    /\ ~Exceeds(fin.string, max(fin.position)) =>
         (fout[1].out.ok /\ fout[1].out.val = Written(fin.string))
    /\ Exceeds(fin.string, max(fin.position)) =>
         (~fout[1].out.ok /\ fout[1].out.err \in {"FieldTooBig", "FieldTooBigError"})

\* The number of times the character c occurs in the string s.
Occurrences(s, c) == Cardinality({i \in 1..Len(s) : s[i] = c})

\* C14: parse(format(t)) = t for every in-bounds Time t, and so
\* parse(format(parse(s))) = parse(s) for every string s that parses; format
\* writes the hours with 'h' and the minutes with 'm' only when they are not
\* zero, always the seconds with 's', and the sub-seconds, after the 's',
\* only when they are not zero.
C14_FormatParseRoundTrip ==
  /\ (origin # None /\ parsed # None) =>
       (parsed[1].ok /\ parsed[1].time = origin[1])
  /\ (origin # None /\ text # None) =>
       /\ Occurrences(text[1], delimiter("Hours")) = (IF origin[1].hours # 0 THEN 1 ELSE 0)
       /\ Occurrences(text[1], delimiter("Minutes")) = (IF origin[1].mins # 0 THEN 1 ELSE 0)
       /\ Occurrences(text[1], delimiter("Seconds")) = 1
       /\ (text[1][Len(text[1])] = delimiter("Seconds")) <=> (origin[1].micros = 0)

\* The Time of 2 minutes and 7 sub-seconds, formatted as "2m0s7" and parsed
\* back.
C14_Witness ==
  /\ origin = Some([hours |-> 0, mins |-> 2, secs |-> 0, micros |-> 7])
  /\ text = Some(<<2, 109, 0, 115, 7>>)
  /\ parsed # None
  /\ parsed[1].ok
  /\ parsed[1].time = origin[1]

\* C15: Field::new_with_carry(v) for position P returns the value
\* v mod (P.max + 1), the carry v div (P.max + 1) and the original v, for
\* every magnitude v; 64 seconds give value 4 and carry 1.
C15_NewWithCarryDivides ==
  (fout # None /\ fout[1].op = "new_with_carry") =>
    /\ fout[1].out.value = fin.val % (max(fin.position) + 1)
    /\ fout[1].out.carry = fin.val \div (max(fin.position) + 1)
    /\ fout[1].out.original = fin.val

\* Field::<Second>::new_with_carry(64): value 4, carry 1.
C15_Witness ==
  /\ fin.position = "Seconds"
  /\ fin.val = 64
  /\ fout = Some([op |-> "new_with_carry",
                  out |-> [value |-> 4, carry |-> 1, original |-> 64]])

\* C16: Field::try_from(v) for position P succeeds, with value v, exactly
\* when v <= P.max, and fails with FieldTooBig carrying the original v
\* exactly when v > P.max; no Field with a value above P.max comes out of
\* default, try_from, from_str or new_with_carry.
C16_TryFromChecksBound ==
  /\ (fout # None /\ fout[1].op = "try_from" /\ fin.val <= max(fin.position)) =>
       (fout[1].out.ok /\ fout[1].out.val = fin.val)
  /\ (fout # None /\ fout[1].op = "try_from" /\ fin.val > max(fin.position)) =>
       /\ ~fout[1].out.ok
       /\ fout[1].out.err = "FieldTooBig"
       /\ fout[1].out.errval = fin.val
  /\ (fout # None /\ fout[1].op \in {"try_from", "from_str"} /\ fout[1].out.ok) =>
       fout[1].out.val <= max(fin.position)
  /\ (fout # None /\ fout[1].op \in {"default", "new_with_carry"}) =>
       fout[1].out.value <= max(fin.position)

\* Field::<Minute>::try_from(60), refused with FieldTooBig and the value 60.
C16_Witness ==
  /\ fin.position = "Minutes"
  /\ fin.val = 60
  /\ fout # None
  /\ fout[1].op = "try_from"
  /\ ~fout[1].out.ok
  /\ fout[1].out.err = "FieldTooBig"
  /\ fout[1].out.errval = 60

\* Each field of the Time t is at most its maximum.
InBounds(t) ==
  /\ t.hours <= max("Hours")
  /\ t.mins <= max("Minutes")
  /\ t.secs <= max("Seconds")
  /\ t.micros <= max("Milliseconds")

\* C17: in every state an Editor reaches by events and commits, the hours,
\* minutes, seconds and sub-seconds of its time are at most 255, 59, 59 and
\* 999, and so are those of every Time handed to push_to; the same bounds
\* hold for the sum of any two in-bounds Times.
C17_TimesStayInBounds ==
  /\ InBounds(time)
  /\ \A i \in 1..Len(pushed) : InBounds(pushed[i].time)
  /\ (lhs \in AddTimes /\ rhs \in AddTimes /\ sum # None /\ ~sum[1].panic) =>
       InBounds(sum[1].time)

\* A commit that found the Minutes buffer "99" and handed push_to a Time
\* whose minutes are within 59.
C17_Witness ==
  /\ Handling("Commit")
  /\ pre.field = Some([position |-> "Minutes", string |-> <<9, 9>>])
  /\ Len(pushed) = 1
  /\ pushed[1].time.mins <= 59

\* C18: a Cursor(motion) event probes the motion on a copy: afterwards the
\* editor's cursor, time and FieldEditor are as they were and nothing was
\* written to the run, so a commit that follows writes to the split the
\* editor was on before the event, the time it would have written without
\* the event.
C18_CursorMovesOnlyACopy ==
  /\ [](Handling("Cursor") =>
         (Left = Found /\ run = pre.run /\ pushed = <<>>))
  /\ [][(Handling("Cursor") /\ ev'.kind = "Commit") =>
          pushed' = <<[position |-> pre.cur.pos,
                       time |-> IF pre.field = None THEN pre.time
                                ELSE Folded(pre.time, pre.field[1].position,
                                            pre.field[1].string)]>>]_vars

\* A Cursor(Down) on the first split with a FieldEditor active: the result
\* is a transition to Navigation at the second split, and the editor's
\* cursor is still on the first.
C18_Witness ==
  /\ Handling("Cursor")
  /\ ev.motion = "Down"
  /\ pre.cur.pos = 0
  /\ pre.field # None
  /\ res.mode = "Nav"
  /\ res.cur # None
  /\ res.cur[1].pos = 1
  /\ cur.pos = 0

\* The buffer of the field editor f does not parse to a value within the
\* bound of its position.
OutOfBounds(f) == Written(f.string) > max(f.position)

\* C19: when the active FieldEditor's buffer does not parse to an in-bounds
\* value, the field commit made by EnterField or Commit fails silently: all
\* four fields of time keep their values, the FieldEditor is still
\* discarded, EnterField still starts the new field and returns Handled, and
\* Commit still pushes the unmodified time.
C19_FailedFieldCommitIsSilent ==
  /\ (Handling("EnterField") /\ pre.field # None /\ OutOfBounds(pre.field[1])) =>
       /\ time = pre.time
       /\ field = Some([position |-> ev.position, string |-> <<>>])
       /\ cur = pre.cur
       /\ res = Handled
  /\ (Handling("Commit") /\ pre.field # None /\ OutOfBounds(pre.field[1])) =>
       /\ pushed = <<[position |-> pre.cur.pos, time |-> pre.time]>>
       /\ run = [pre.run EXCEPT ![pre.cur.pos] = @ + 1]
       /\ field = None

\* A commit that found the Minutes buffer "99" on a time of one hour and
\* pushed the time of one hour.
C19_Witness ==
  /\ Handling("Commit")
  /\ pre.field = Some([position |-> "Minutes", string |-> <<9, 9>>])
  /\ pre.time = [hours |-> 1, mins |-> 0, secs |-> 0, micros |-> 0]
  /\ pushed = <<[position |-> pre.cur.pos, time |-> pre.time]>>
  /\ field = None

\* C20: in a time string a delimiter with no digits before it is accepted
\* and gives a zero field: "s" and "hms" parse to the zero Time and "m5s" to
\* 5 seconds, none of them fails with FieldParse.
C20_BareDelimiterIsZero ==
  /\ (text = Some(<<delimiter("Seconds")>>) /\ parsed # None) =>
       (parsed[1].ok /\ parsed[1].time = Time_default)
  /\ (text = Some(<<delimiter("Hours"), delimiter("Minutes"), delimiter("Seconds")>>)
        /\ parsed # None) =>
       (parsed[1].ok /\ parsed[1].time = Time_default)
  /\ (text = Some(<<delimiter("Minutes"), 5, delimiter("Seconds")>>) /\ parsed # None) =>
       (parsed[1].ok /\ parsed[1].time = [Time_default EXCEPT !.secs = 5])

\* C21: Set::by_key(Key::Pace(p)) returns the colour documented for the
\* pace: fg_time_run_ahead when the run is ahead of comparison (Ahead),
\* fg_time_run_behind when it is behind (Behind), fg_time_split_ahead for
\* PersonalBest and fg_normal for Inconclusive.
C21_PaceColourAsDocumented ==
  (colour # None /\ key.kind = "Pace") =>
    /\ key.pace = "Ahead" => colour = Some(set.fg_time_run_ahead)
    /\ key.pace = "Behind" => colour = Some(set.fg_time_run_behind)
    /\ key.pace = "PersonalBest" => colour = Some(set.fg_time_split_ahead)
    /\ key.pace = "Inconclusive" => colour = Some(set.fg_normal)

\* C22: no event the editor handles writes to the run: over any sequence of
\* handle_event calls (Undo, Delete, Edit, EnterField, Cursor or any other
\* event) the run stays as it is; the only operation that changes the run is
\* commit, which makes exactly one push_to per call.
C22_OnlyCommitWritesRun ==
  /\ [](ev.kind \notin {"None", "Commit"} => (run = pre.run /\ pushed = <<>>))
  /\ [](Handling("Commit") =>
         /\ Len(pushed) = 1
         /\ run = [pre.run EXCEPT ![pushed[1].position] = @ + 1])
  /\ [][ev'.kind # "Commit" => run' = run]_vars

\* An accepted Edit(Add) handled after a commit to the first split: the
\* run still holds that one time and nothing else.
C22_Witness ==
  /\ Handling("Edit")
  /\ res = Handled
  /\ pre.run = [i \in 0..(NumSplits - 1) |-> IF i = 0 THEN 1 ELSE 0]
  /\ run = pre.run
  /\ pushed = <<>>

\* The Time t with the field of position p set to zero.
Zeroed(t, p) == [t EXCEPT ![FieldOf(p)] = 0]

\* C23: committing a FieldEditor whose buffer is empty sets the field of its
\* position to zero: after EnterField(p) followed, with no accepted digit in
\* between, by EnterField(q) or Commit, the p field of time is 0 whatever it
\* held before and the other three fields are unchanged; so entering a
\* filled field, or Hours, and leaving it without typing erases the field.
C23_EmptyBufferZeroesField ==
  /\ []((Handling("EnterField") /\ pre.field # None /\ pre.field[1].string = <<>>) =>
         time = Zeroed(pre.time, pre.field[1].position))
  /\ []((Handling("Commit") /\ pre.field # None /\ pre.field[1].string = <<>>) =>
         pushed = <<[position |-> pre.cur.pos,
                     time |-> Zeroed(pre.time, pre.field[1].position)]>>)
  /\ [][(Handling("EnterField") /\ ev'.kind = "EnterField") =>
          time' = Zeroed(time, ev.position)]_vars
  /\ [][(Handling("EnterField") /\ ev'.kind = "Commit") =>
          pushed' = <<[position |-> cur.pos, time |-> Zeroed(time, ev.position)]>>]_vars

\* An EnterField that found an empty Hours FieldEditor on a time of one
\* hour and left a time of zero hours.
C23_Witness ==
  /\ Handling("EnterField")
  /\ pre.field = Some([position |-> "Hours", string |-> <<>>])
  /\ pre.time = [hours |-> 1, mins |-> 0, secs |-> 0, micros |-> 0]
  /\ time = Time_default

====
